---- MODULE Spec2Model ----
(***************************************************************************)
(* Model of data-scripts/build_frequency_lists.py: the loader              *)
(* (parse_frequency_lists and its three per-token rules) followed by the   *)
(* consolidation (filter_frequency_lists: global minimum-rank index,       *)
(* ownership, brute-force-dominance heuristic, sort by rank, cut-off).     *)
(*                                                                         *)
(* A token is a sequence of one-character strings, so that its length, its *)
(* set of characters and its prefix token[:-1] are computed as the code    *)
(* computes them.  A Python dict that the code iterates over is a sequence *)
(* of [k, v] entries in insertion order (dict order of Python 3.7+); a     *)
(* dict that is only looked up is a function.  The warnings that          *)
(* parse_frequency_lists prints and the counter token_count, which is      *)
(* written and never read, are left out.                                   *)
(***************************************************************************)
EXTENDS Integers, Sequences, FiniteSets, TLC

VARIABLES data_dir, DICTIONARIES, pc, freq_lists, minimum_rank, minimum_name,
          filtered_token_and_rank, result

vars == <<data_dir, DICTIONARIES, pc, freq_lists, minimum_rank, minimum_name,
          filtered_token_and_rank, result>>

-----------------------------------------------------------------------------
(* Bounds of the model and constants of the program.                       *)

\* largest capacity a configuration of the model gives a list
MaxCap == 1
\* number of leading lines (indices 0 .. LowLines-1) a file of the general
\* family may fill with a token
LowLines == 2

\* a capacity of None ("include all words"); the code only tests its truth
\* value (line 168), and None is as false as 0
None == 0
MIN_GUESSES_BEFORE_GROWING_SEQUENCE == 1000

-----------------------------------------------------------------------------
(* Python dicts in insertion order.                                        *)

DictKeys(d) == {d[i].k : i \in 1..Len(d)}

DictHas(d, key) == \E i \in 1..Len(d) : d[i].k = key

DictGet(d, key) == d[CHOOSE i \in 1..Len(d) : d[i].k = key].v

\* d[key] = val: an existing key keeps its position and takes the new value
DictSet(d, key, val) ==
    IF DictHas(d, key)
    THEN [i \in 1..Len(d) |-> IF d[i].k = key THEN [k |-> key, v |-> val] ELSE d[i]]
    ELSE Append(d, [k |-> key, v |-> val])

-----------------------------------------------------------------------------
(* The three rules of the loader.                                          *)

RECURSIVE Pow(_, _)
Pow(b, n) == IF n = 0 THEN 1 ELSE b * Pow(b, n - 1)

Chars(token) == {token[i] : i \in 1..Len(token)}

is_rare_and_short_off_by_one(token, rank) ==
    rank > Pow(10, Len(token)) \/ Len(token) <= 2

is_rare_and_short(token, rank) ==
    rank >= Pow(10, Len(token)) \/ Len(token) <= 2

has_only_one_char(token) == Cardinality(Chars(token)) = 1

has_comma_only(token, rank, lst_name) ==
    IF "," \in Chars(token) THEN TRUE ELSE FALSE

has_comma_or_double_quote(token, rank, lst_name) ==
    IF "," \in Chars(token) \/ "\"" \in Chars(token) THEN TRUE ELSE FALSE

-----------------------------------------------------------------------------
(* parse_frequency_lists.  A file is a function from the (0-based) indices *)
(* of some of its lines to the token that line.split()[0] yields there;    *)
(* every line whose index is not in the domain reads "aa", which line 85   *)
(* skips, so the loop over the lines visits the domain in increasing       *)
(* order.                                                                  *)

MinOf(S) == CHOOSE x \in S : \A y \in S : x <= y

RECURSIVE LoadLines(_, _, _, _)
LoadLines(f, todo, freq_list_name, token_to_rank) ==
    IF todo = {} THEN token_to_rank
    ELSE LET i == MinOf(todo)
             rank == i + 1
             token == f[i]
             rest == todo \ {i}
         IN  IF has_only_one_char(token)
             THEN LoadLines(f, rest, freq_list_name, token_to_rank)
             ELSE IF has_comma_or_double_quote(token, rank, freq_list_name)
             THEN LoadLines(f, rest, freq_list_name, token_to_rank)
             ELSE IF is_rare_and_short(token, rank)
             THEN LoadLines(f, rest, freq_list_name, token_to_rank)
             ELSE LoadLines(f, rest, freq_list_name, DictSet(token_to_rank, token, rank))

\* data_dir is the directory in os.listdir order: a sequence of
\* [name, lines] with name the file's name without its extension
RECURSIVE ParseFrom(_, _, _, _)
ParseFrom(dir, n, config, lists) ==
    IF n > Len(dir) THEN lists
    ELSE LET freq_list_name == dir[n].name
         IN  IF freq_list_name \notin DOMAIN config
             THEN ParseFrom(dir, n + 1, config, lists)
             ELSE ParseFrom(dir, n + 1, config,
                            DictSet(lists, freq_list_name,
                                    LoadLines(dir[n].lines, DOMAIN dir[n].lines,
                                              freq_list_name, <<>>)))

parse_frequency_lists(dir, config) == ParseFrom(dir, 1, config, <<>>)

-----------------------------------------------------------------------------
(* The brute-force-dominance heuristic.                                    *)

is_brutal_better_any_length(token, rank, min_rank) ==
    IF rank < MIN_GUESSES_BEFORE_GROWING_SEQUENCE THEN FALSE
    ELSE LET short_token == SubSeq(token, 1, Len(token) - 1)
         IN  IF short_token \in DOMAIN min_rank
             THEN rank > (min_rank[short_token] * 22) + MIN_GUESSES_BEFORE_GROWING_SEQUENCE
             ELSE FALSE

is_brutal_better(token, rank, min_rank) ==
    IF rank < MIN_GUESSES_BEFORE_GROWING_SEQUENCE THEN FALSE
    ELSE IF Len(token) < 5 THEN FALSE
    ELSE LET short_token == SubSeq(token, 1, Len(token) - 1)
         IN  IF short_token \in DOMAIN min_rank
             THEN LET srank == min_rank[short_token]
                  IN  rank > (srank * 22) + MIN_GUESSES_BEFORE_GROWING_SEQUENCE
             ELSE FALSE

-----------------------------------------------------------------------------
(* filter_frequency_lists, first loop: the global minimum-rank index.      *)
(* idx = [rank, name, ok]: minimum_rank, minimum_name, and whether every   *)
(* assert so far held.                                                     *)

\* the body of the inner loop with the owner never replaced
IndexStepKeepFirst(idx, name, token, rank) ==
    IF token \notin DOMAIN idx.rank
    THEN [rank |-> (token :> rank) @@ idx.rank,
          name |-> (token :> name) @@ idx.name,
          ok   |-> idx.ok /\ token \notin DOMAIN idx.name]
    ELSE [idx EXCEPT !.ok = idx.ok /\ token \in DOMAIN idx.name
                                   /\ idx.name[token] # name]

\* the body of the inner loop with rank <= min_rank
IndexStepLastOnTie(idx, name, token, rank) ==
    IF token \notin DOMAIN idx.rank
    THEN [rank |-> (token :> rank) @@ idx.rank,
          name |-> (token :> name) @@ idx.name,
          ok   |-> idx.ok /\ token \notin DOMAIN idx.name]
    ELSE IF ~(token \in DOMAIN idx.name /\ idx.name[token] # name)
    THEN [idx EXCEPT !.ok = FALSE]
    ELSE IF rank <= idx.rank[token]
    THEN [rank |-> [idx.rank EXCEPT ![token] = rank],
          name |-> [idx.name EXCEPT ![token] = name],
          ok   |-> idx.ok]
    ELSE idx

\* the body of the inner loop, lines 145-155
IndexStep(idx, name, token, rank) ==
    IF token \notin DOMAIN idx.rank
    THEN [rank |-> (token :> rank) @@ idx.rank,
          name |-> (token :> name) @@ idx.name,
          ok   |-> idx.ok /\ token \notin DOMAIN idx.name]
    ELSE IF ~(token \in DOMAIN idx.name /\ idx.name[token] # name)
    THEN [idx EXCEPT !.ok = FALSE]
    ELSE LET min_rank == idx.rank[token]
         IN  IF rank < min_rank
             THEN [rank |-> [idx.rank EXCEPT ![token] = rank],
                   name |-> [idx.name EXCEPT ![token] = name],
                   ok   |-> idx.ok]
             ELSE idx

\* for token, rank in token_to_rank.items(); a failed assert ends the run
RECURSIVE IndexTokens(_, _, _, _)
IndexTokens(idx, name, token_to_rank, n) ==
    IF n > Len(token_to_rank) \/ ~idx.ok THEN idx
    ELSE IndexTokens(IndexStep(idx, name, token_to_rank[n].k, token_to_rank[n].v),
                     name, token_to_rank, n + 1)

\* for name, token_to_rank in freq_lists.items()
RECURSIVE IndexLists(_, _, _)
IndexLists(idx, lists, n) ==
    IF n > Len(lists) \/ ~idx.ok THEN idx
    ELSE IndexLists(IndexTokens(idx, lists[n].k, lists[n].v, 1), lists, n + 1)

BuildIndex(lists) == IndexLists([rank |-> <<>>, name |-> <<>>, ok |-> TRUE], lists, 1)

-----------------------------------------------------------------------------
(* Second loop: each list keeps the tokens it owns that the heuristic      *)
(* passes, as (token, rank) pairs in the order of token_to_rank.           *)

\* the second loop without the test of ownership
RECURSIVE SelectAll(_, _, _, _, _)
SelectAll(name, token_to_rank, n, min_rank, min_name) ==
    IF n > Len(token_to_rank) THEN <<>>
    ELSE LET token == token_to_rank[n].k
             rank == token_to_rank[n].v
             rest == SelectAll(name, token_to_rank, n + 1, min_rank, min_name)
         IN  IF is_brutal_better(token, rank, min_rank) THEN rest
             ELSE <<<<token, rank>>>> \o rest

RECURSIVE SelectOwned(_, _, _, _, _)
SelectOwned(name, token_to_rank, n, min_rank, min_name) ==
    IF n > Len(token_to_rank) THEN <<>>
    ELSE LET token == token_to_rank[n].k
             rank == token_to_rank[n].v
             rest == SelectOwned(name, token_to_rank, n + 1, min_rank, min_name)
         IN  IF min_name[token] # name THEN rest
             ELSE IF is_brutal_better(token, rank, min_rank) THEN rest
             ELSE <<<<token, rank>>>> \o rest

\* filtered_token_and_rank after lines 138-140 and 156-163
Filtered(lists, min_rank, min_name) ==
    [name \in DictKeys(lists) |->
        SelectOwned(name, DictGet(lists, name), 1, min_rank, min_name)]

-----------------------------------------------------------------------------
(* Third loop: sort by rank, cut off at the capacity, drop the ranks.      *)

\* list.sort(key=itemgetter(1)) is stable: a pair goes after the pairs
\* whose rank is not greater
InsertByRank(sorted, pair) ==
    LET n == Cardinality({i \in 1..Len(sorted) : sorted[i][2] <= pair[2]})
    IN  SubSeq(sorted, 1, n) \o <<pair>> \o SubSeq(sorted, n + 1, Len(sorted))

RECURSIVE SortFrom(_, _)
SortFrom(pairs, n) ==
    IF n = 0 THEN <<>> ELSE InsertByRank(SortFrom(pairs, n - 1), pairs[n])

SortByRank(pairs) == SortFrom(pairs, Len(pairs))

Tokens(pairs) == [i \in 1..Len(pairs) |-> pairs[i][1]]

\* lines 166-169 with the sort left out
CutUnsorted(token_rank_pairs, cutoff_limit) ==
    IF cutoff_limit # None /\ Len(token_rank_pairs) > cutoff_limit
    THEN SubSeq(token_rank_pairs, 1, cutoff_limit)
    ELSE token_rank_pairs

\* lines 166-169 with the cut-off taken before the sort
CutThenSort(token_rank_pairs, cutoff_limit) ==
    IF cutoff_limit # None /\ Len(token_rank_pairs) > cutoff_limit
    THEN SortByRank(SubSeq(token_rank_pairs, 1, cutoff_limit))
    ELSE SortByRank(token_rank_pairs)

\* lines 166-169: the pairs of one list, sorted and cut off
SortAndCut(token_rank_pairs, cutoff_limit) ==
    LET sorted == SortByRank(token_rank_pairs)
    IN  IF cutoff_limit # None /\ Len(sorted) > cutoff_limit
        THEN SubSeq(sorted, 1, cutoff_limit)
        ELSE sorted

Pack(filtered, config) ==
    [name \in DOMAIN filtered |-> Tokens(SortAndCut(filtered[name], config[name]))]

\* the whole function: what it returns and the locals it leaves
filter_frequency_lists(lists, config) ==
    LET idx == BuildIndex(lists)
        filtered == Filtered(lists, idx.rank, idx.name)
    IN  [ok |-> idx.ok,
         minimum_rank |-> idx.rank,
         minimum_name |-> idx.name,
         filtered_token_and_rank |-> IF idx.ok THEN filtered ELSE <<>>,
         result |-> IF idx.ok THEN Pack(filtered, config) ELSE <<>>]

-----------------------------------------------------------------------------
(* Inputs: the tokens, the files, the directories and the configurations.  *)

alp    == <<"a", "l", "p">>
alph   == <<"a", "l", "p", "h">>
alpha  == <<"a", "l", "p", "h", "a">>
alphas == <<"a", "l", "p", "h", "a", "s">>
aaaa   == <<"a", "a", "a", "a">>
ab     == <<"a", "b">>
a_comma_b == <<"a", ",", "b">>
a_quote_b == <<"a", "\"", "b">>

FileNames == {"passwords", "surnames"}

\* the files with a token at each line of lineSet
Files(lineSet, tokenSet) == [lineSet -> tokenSet]

\* the directories of at most n files with different names
Directories(fileSet, n) ==
    {dir \in UNION {[1..m -> [name : FileNames, lines : fileSet]] : m \in 0..n} :
        \A i, j \in 1..Len(dir) : i # j => dir[i].name # dir[j].name}

\* every name configured, or "surnames" left out of the configuration
Configurations(capSet) ==
    [FileNames -> capSet] \cup [{"passwords"} -> capSet]

CapSet == {None} \cup (1..MaxCap)

\* duplicates, ties, cut-off and the heuristic: ranks 1 .. LowLines and 1023
GeneralFiles == Files((0..(LowLines - 1)) \cup {1022}, {alph, alpha, aaaa})

\* the boundaries of the heuristic: ranks 1, 1022, 1023 and 1, 1020, 23500
BrutalFiles == Files({0, 1021, 1022}, {alp, alph, alpha, aaaa})
ExampleFiles == Files({0, 1019, 23499}, {alpha, alphas, aaaa})

\* the boundaries of the loader's rules: ranks 1, 999, 1000, 9999, 10000
LoaderFiles == Files({0, 998, 999, 9998, 9999},
                     {alp, alph, ab, aaaa, a_comma_b, a_quote_b})

-----------------------------------------------------------------------------
(* The run of main(): parse, then filter.                                  *)

Start(dirs, configs) ==
    /\ data_dir \in dirs
    /\ DICTIONARIES \in configs
    /\ pc = "start"
    /\ freq_lists = <<>>
    /\ minimum_rank = <<>>
    /\ minimum_name = <<>>
    /\ filtered_token_and_rank = <<>>
    /\ result = <<>>

Init ==
    \/ Start(Directories(GeneralFiles, 2), Configurations(CapSet))
    \/ Start(Directories(BrutalFiles, 2) \cup Directories(ExampleFiles, 2),
             Configurations({None}))
    \/ Start(Directories(LoaderFiles, 1), Configurations({None}))

\* line 182
Parse ==
    /\ pc = "start"
    /\ freq_lists' = parse_frequency_lists(data_dir, DICTIONARIES)
    /\ pc' = "parsed"
    /\ UNCHANGED <<data_dir, DICTIONARIES, minimum_rank, minimum_name,
                   filtered_token_and_rank, result>>

\* line 183; an AssertionError ends the run before anything is written
Filter ==
    /\ pc = "parsed"
    /\ LET out == filter_frequency_lists(freq_lists, DICTIONARIES)
       IN  /\ pc' = IF out.ok THEN "done" ELSE "aborted"
           /\ minimum_rank' = out.minimum_rank
           /\ minimum_name' = out.minimum_name
           /\ filtered_token_and_rank' = out.filtered_token_and_rank
           /\ result' = out.result
    /\ UNCHANGED <<data_dir, DICTIONARIES, freq_lists>>

Next == Parse \/ Filter

Spec == Init /\ [][Next]_vars

-----------------------------------------------------------------------------
(* What the claims speak of.                                               *)

Done == pc = "done"

ListNames == DictKeys(freq_lists)

\* the list has recorded a rank for the token
Loaded(name, token) ==
    DictHas(freq_lists, name) /\ DictHas(DictGet(freq_lists, name), token)

RankIn(name, token) == DictGet(DictGet(freq_lists, name), token)

LoadedTokens == {e.k : e \in UNION {{l.v[i] : i \in 1..Len(l.v)} :
                                     l \in {freq_lists[n] : n \in 1..Len(freq_lists)}}}

Holders(token) == {name \in ListNames : Loaded(name, token)}

\* the lowest rank any list has recorded for the token
GlobalMin(token) ==
    MinOf({RankIn(name, token) : name \in Holders(token)})

\* the place of a list in the processing order
Place(name) == CHOOSE n \in 1..Len(freq_lists) : freq_lists[n].k = name

\* the first list, in processing order, among those of lowest rank
FirstBest(token) ==
    CHOOSE name \in Holders(token) :
        /\ RankIn(name, token) = GlobalMin(token)
        /\ \A other \in Holders(token) :
              RankIn(other, token) = GlobalMin(token) => Place(name) <= Place(other)

Positions(name, token) ==
    {i \in 1..Len(result[name]) : result[name][i] = token}

Retains(name, token) == name \in DOMAIN result /\ Positions(name, token) # {}

Retainers(token) == {name \in ListNames : Retains(name, token)}

\* the pair is among those the list kept before sorting
Kept(name, token) ==
    \E i \in 1..Len(filtered_token_and_rank[name]) :
        filtered_token_and_rank[name][i] = <<token, RankIn(name, token)>>

\* the list sorted and packed its pair of the token, and the capacity cut it
CutOff(name, token) == Kept(name, token) /\ ~Retains(name, token)

\* the file of a configured list
FileOf(name) == data_dir[CHOOSE n \in 1..Len(data_dir) : data_dir[n].name = name].lines

Owner(token) == FirstBest(token)

Prefix(token) == SubSeq(token, 1, Len(token) - 1)

\* the brute-force-dominance rule as the specification words it
Dominated(token) ==
    /\ Len(token) >= 5
    /\ GlobalMin(token) >= 1000
    /\ Holders(Prefix(token)) # {}
    /\ GlobalMin(token) > GlobalMin(Prefix(token)) * 22 + 1000

\* the tokens a list owns that the heuristic passes
Survivors(name) ==
    {token \in LoadedTokens :
        Loaded(name, token) /\ Owner(token) = name /\ ~Dominated(token)}

\* the capacity of the list is used up by survivors of lower rank
BeyondCapacity(name, token) ==
    /\ DICTIONARIES[name] # None
    /\ Cardinality({u \in Survivors(name) : RankIn(name, u) < RankIn(name, token)})
          >= DICTIONARIES[name]

-----------------------------------------------------------------------------
\* no list reads a token that it records on two of its lines
NoRepeatedLine ==
    \A name \in ListNames : \A i, j \in DOMAIN FileOf(name) :
        i # j /\ FileOf(name)[i] = FileOf(name)[j] => ~Loaded(name, FileOf(name)[i])

(* C1: a token that two or more lists record is retained, in the final     *)
(* output, by exactly one list, the one where its rank is lowest.  As      *)
(* stated this fails, also on files that repeat no token: the owner may    *)
(* lose the token to the heuristic or to its capacity, and then no list    *)
(* retains it.                                                             *)
C1_ExactlyOneRetains ==
    Done /\ NoRepeatedLine => \A token \in LoadedTokens :
        Cardinality(Holders(token)) >= 2 =>
            /\ Cardinality(Retainers(token)) = 1
            /\ \A name \in Retainers(token) : RankIn(name, token) = GlobalMin(token)

(* C1 as amended: at most one list retains the token, a list that retains  *)
(* it is one where its recorded rank is the lowest, and no list retains it *)
(* exactly when its owner loses it to the heuristic or to the capacity.    *)
C1_AtMostOneRetains ==
    Done => \A token \in LoadedTokens :
        Cardinality(Holders(token)) >= 2 =>
            /\ Cardinality(Retainers(token)) <= 1
            /\ \A name \in Retainers(token) : RankIn(name, token) = GlobalMin(token)
            /\ Retainers(token) = {}
                  <=> \/ Dominated(token)
                      \/ BeyondCapacity(Owner(token), token)

\* the second list in processing order has the lower rank and retains the token
C1_Witness ==
    /\ Done
    /\ Len(freq_lists) = 2
    /\ \E token \in LoadedTokens :
          /\ Holders(token) = ListNames
          /\ RankIn(freq_lists[2].k, token) < RankIn(freq_lists[1].k, token)
          /\ Retainers(token) = {freq_lists[2].k}

\* a list reads a token on two lines, keeps it both times, and records one
\* entry for it, with the rank of the later line
MergedDuplicate ==
    \E name \in ListNames : \E i, j \in DOMAIN FileOf(name) :
        /\ i < j
        /\ FileOf(name)[i] = FileOf(name)[j]
        /\ Loaded(name, FileOf(name)[i])
        /\ RankIn(name, FileOf(name)[i]) = j + 1

(* C2: the same token on two lines of one source list aborts the run: no   *)
(* final output is produced, and the two lines are never merged into one   *)
(* entry.  The code merges them and finishes.                              *)
C2_DuplicateAborts == Done => ~MergedDuplicate

(* C3: no token of the final output holds a comma or a double quote.       *)
C3_CharacterSafety ==
    Done => \A name \in DOMAIN result : \A i \in 1..Len(result[name]) :
        "," \notin Chars(result[name][i]) /\ "\"" \notin Chars(result[name][i])

\* a list read a token with a comma and one with a double quote, and has output
C3_Witness ==
    /\ Done
    /\ \E name \in ListNames :
          /\ \E i \in DOMAIN FileOf(name) : "," \in Chars(FileOf(name)[i])
          /\ \E i \in DOMAIN FileOf(name) : "\"" \in Chars(FileOf(name)[i])
          /\ Len(result[name]) > 0

(* C4: a list with a capacity C has at most C tokens in the final output,  *)
(* and the cut-off comes after the sort: every surviving token that the    *)
(* capacity cut has a rank greater than every token kept.                  *)
C4_CapacityAfterSort ==
    Done => \A name \in DOMAIN result :
        DICTIONARIES[name] # None =>
            /\ Len(result[name]) <= DICTIONARIES[name]
            /\ \A cut \in LoadedTokens : \A i \in 1..Len(result[name]) :
                  Loaded(name, cut) /\ CutOff(name, cut)
                      => RankIn(name, cut) > RankIn(name, result[name][i])

\* a list whose capacity cut a surviving token off and kept another
C4_Witness ==
    /\ Done
    /\ \E name \in DOMAIN result :
          /\ DICTIONARIES[name] # None
          /\ Len(result[name]) = DICTIONARIES[name]
          /\ \E cut \in LoadedTokens : Loaded(name, cut) /\ CutOff(name, cut)

(* C5: in every list of the final output the tokens stand in               *)
(* non-decreasing order of the rank the list recorded for them.            *)
C5_RankOrder ==
    Done => \A name \in DOMAIN result : \A i, j \in 1..Len(result[name]) :
        i < j => RankIn(name, result[name][i]) <= RankIn(name, result[name][j])

\* a list whose pairs were not in rank order before the sort
C5_Witness ==
    /\ Done
    /\ \E name \in DOMAIN result :
          /\ Len(result[name]) >= 2
          /\ Tokens(filtered_token_and_rank[name]) # result[name]

C7_BrutalExactly ==
    Done => \A name \in ListNames : \A token \in LoadedTokens :
        Loaded(name, token) /\ minimum_name[token] = name =>
            LET r == RankIn(name, token)
            IN  ~Kept(name, token)
                   <=> /\ Len(token) >= 5
                       /\ r >= 1000
                       /\ Prefix(token) \in DOMAIN minimum_rank
                       /\ r > minimum_rank[Prefix(token)] * 22 + 1000

\* "alpha" at rank 1 in the index, and the owner of "alphas" at rank 23500
\* excludes it
C7_Witness ==
    /\ Done
    /\ \E name \in ListNames :
          /\ Loaded(name, alphas)
          /\ RankIn(name, alphas) = 23500
          /\ minimum_name[alphas] = name
          /\ alpha \in DOMAIN minimum_rank
          /\ minimum_rank[alpha] = 1
          /\ ~Kept(name, alphas)

\* "alpha" at rank 1 in the index, and the owner of "alphas" at rank 1020
\* keeps it
C7_WitnessRetained ==
    /\ Done
    /\ \E name \in ListNames :
          /\ Loaded(name, alphas)
          /\ RankIn(name, alphas) = 1020
          /\ minimum_name[alphas] = name
          /\ alpha \in DOMAIN minimum_rank
          /\ minimum_rank[alpha] = 1
          /\ Retains(name, alphas)

(* C8: the minimum-rank index records, for every token, its lowest rank    *)
(* and as owner the first list, in processing order, that has this rank:   *)
(* on equal ranks the earlier list stays the owner, and a later list       *)
(* replaces it only with a strictly lower rank.                            *)
C8_FirstOwnerOnTie ==
    Done => \A token \in LoadedTokens :
        /\ token \in DOMAIN minimum_name
        /\ token \in DOMAIN minimum_rank
        /\ minimum_rank[token] = GlobalMin(token)
        /\ minimum_name[token] = FirstBest(token)

\* two lists record the same rank for a token and the first one owns it
C8_Witness ==
    /\ Done
    /\ Len(freq_lists) = 2
    /\ \E token \in LoadedTokens :
          /\ Holders(token) = ListNames
          /\ RankIn(freq_lists[1].k, token) = RankIn(freq_lists[2].k, token)
          /\ minimum_name[token] = freq_lists[1].k

(* C9: a token stands at most once in the whole final output (one list,    *)
(* one position), and no list other than its owner has it in its output,   *)
(* so a token that its owner loses to the heuristic or to the capacity     *)
(* is in no output at all.                                                 *)
C9_AtMostOnce ==
    Done =>
        /\ \A n, m \in DOMAIN result :
              \A i \in 1..Len(result[n]) : \A j \in 1..Len(result[m]) :
                  result[n][i] = result[m][j] => n = m /\ i = j
        /\ \A token \in LoadedTokens : \A name \in ListNames :
              name # minimum_name[token] => ~Retains(name, token)
        /\ \A token \in LoadedTokens :
              ~Retains(minimum_name[token], token) => Retainers(token) = {}

\* two lists record a token, its owner loses it to the heuristic
C9_Witness ==
    /\ Done
    /\ \E token \in LoadedTokens :
          /\ Cardinality(Holders(token)) = 2
          /\ ~Kept(minimum_name[token], token)
          /\ Retainers(token) = {}

\* two lists record a token, its owner loses it to the capacity
C9_WitnessCutOff ==
    /\ Done
    /\ \E token \in LoadedTokens :
          /\ Cardinality(Holders(token)) = 2
          /\ CutOff(minimum_name[token], token)
          /\ Retainers(token) = {}

(* C10: when no token has its lowest rank in two lists, the owners, the    *)
(* heuristic's decisions and the final output are the same for every       *)
(* order in which the lists are processed.                                 *)
NoTies ==
    \A token \in LoadedTokens :
        Cardinality({name \in Holders(token) :
                        RankIn(name, token) = GlobalMin(token)}) = 1

Orders(n) == {p \in [1..n -> 1..n] : \A i, j \in 1..n : i # j => p[i] # p[j]}

Reordered(lists, p) == [i \in 1..Len(lists) |-> lists[p[i]]]

C10_OrderIndependent ==
    Done /\ NoTies => \A p \in Orders(Len(freq_lists)) :
        LET out == filter_frequency_lists(Reordered(freq_lists, p), DICTIONARIES)
        IN  /\ out.ok
            /\ out.minimum_name = minimum_name
            /\ out.minimum_rank = minimum_rank
            /\ out.filtered_token_and_rank = filtered_token_and_rank
            /\ out.result = result

\* two lists record a token at different ranks, the later list owns it, and
\* the heuristic excludes a token
C10_Witness ==
    /\ Done
    /\ NoTies
    /\ Len(freq_lists) = 2
    /\ \E token \in LoadedTokens :
          /\ Holders(token) = ListNames
          /\ minimum_name[token] = freq_lists[2].k
    /\ \E token \in LoadedTokens : ~Kept(minimum_name[token], token)

====
